---- MODULE Spec2Model ----
(***************************************************************************)
(* Model of src/script.js: the ImageConverter class of the client-side     *)
(* image converter/compressor.                                             *)
(*                                                                         *)
(* Three specifications share the variables:                               *)
(*   Spec      the event-driven object: addFiles, the process button,      *)
(*             clearAll, downloadImage and the asynchronous image load and *)
(*             canvas.toBlob completions of processImage;                  *)
(*   SpecCalc  calculateDimensions applied to bounded inputs;              *)
(*   SpecName  getNewFileName applied to bounded inputs.                   *)
(* FairSpec is Spec with weak fairness on the browser's own completions.   *)
(*                                                                         *)
(* Numbers: the code computes in IEEE doubles; the model computes the same *)
(* expressions in exact rationals (pairs of integers).  Strings are        *)
(* sequences of one-character strings.                                     *)
(***************************************************************************)
EXTENDS Integers, Sequences, FiniteSets, TLC

\* ------------------------------------------------------------------ bounds
MaxFiles == 2
MaxRuns == 2
MaxDim == 4
MaxLen == 3

\* ------------------------------------------------------- environment data
\* The empty value of a numeric input field ('' is falsy in the code).
Absent == 0

DOT == "."

\* Files the user can drop.  Each has a name, a byte size, a MIME type,
\* and, for images, whether the browser can decode it and its natural size.
FileTable ==
    [f \in 1..4 |->
        CASE f = 1 -> [name |-> <<"a", DOT, "x">>, size |-> 4, type |-> "image",
                       decodable |-> TRUE,  width |-> 2, height |-> 2]
          [] f = 2 -> [name |-> <<"b">>,           size |-> 2, type |-> "image",
                       decodable |-> TRUE,  width |-> 3, height |-> 1]
          [] f = 3 -> [name |-> <<"c", DOT, "x">>, size |-> 3, type |-> "image",
                       decodable |-> FALSE, width |-> 0, height |-> 0]
          [] OTHER -> [name |-> <<"e", DOT, "t">>, size |-> 1, type |-> "text",
                       decodable |-> FALSE, width |-> 0, height |-> 0]]

Files == DOMAIN FileTable

\* The file lists one file-input change or drop event can carry.
Drops == {<<f>> : f \in Files} \cup {<<4, 1>>, <<1, 2>>}

\* The elements of a sequence.
Range(seq) == {seq[k] : k \in 1..Len(seq)}

Formats == {<<"p", "n", "g">>, <<"j">>}

RunIds == 1..MaxRuns

VARIABLES
    uploadedFiles,    \* this.uploadedFiles: sequence of files
    processedImages,  \* this.processedImages: sequence of result records
    loading,          \* loadingOverlay shown
    cards,            \* number of image cards in imagesGrid
    runs,             \* the processImages invocations, by id
    nRuns,            \* number of processImages invocations that entered the loop
    live,             \* object URLs created and not yet revoked
    format,           \* formatSelect.value
    maxWidth,         \* maxWidth.value   (Absent or a positive integer)
    maxHeight,        \* maxHeight.value  (Absent or a positive integer)
    call              \* the pure-function call of SpecCalc / SpecName

vars == <<uploadedFiles, processedImages, loading, cards, runs, nRuns, live,
          format, maxWidth, maxHeight, call>>


\* --------------------------------------------------------- pure functions
\* A rational number n/d, d > 0.
Rat(n, d) == [n |-> n, d |-> d]

\* a > b for rationals.
RatGreater(a, b) == a.n * b.d > b.n * a.d

\* a / b and a * b for rationals (b # 0).
RatDiv(a, b) == Rat(a.n * b.d, a.d * b.n)

RatMul(a, b) == Rat(a.n * b.n, a.d * b.d)

\* Math.round of a non-negative rational: the nearest integer, halves up.
MathRound(x) == (2 * x.n + x.d) \div (2 * x.d)

\* parseInt(value) when the field is filled, the original dimension otherwise.
EffectiveMax(value, original) == IF value # Absent THEN value ELSE original

\* WidthClamp with its comparison reversed.
WidthClampFlipped(originalWidth, originalHeight, mw) ==
    LET width == Rat(originalWidth, 1)
        height == Rat(originalHeight, 1)
        aspectRatio == RatDiv(width, height)
        limit == Rat(EffectiveMax(mw, originalWidth), 1)
    IN  IF RatGreater(limit, width)
        THEN <<limit, RatDiv(limit, aspectRatio)>>
        ELSE <<width, height>>

\* First clamp of calculateDimensions (lines 201-211): the pair <<width, height>>
\* before rounding.
WidthClamp(originalWidth, originalHeight, mw) ==
    LET width == Rat(originalWidth, 1)
        height == Rat(originalHeight, 1)
        aspectRatio == RatDiv(width, height)
        limit == Rat(EffectiveMax(mw, originalWidth), 1)
    IN  IF RatGreater(width, limit)
        THEN <<limit, RatDiv(limit, aspectRatio)>>
        ELSE <<width, height>>

\* HeightClamp left out.
HeightClampSkipped(originalWidth, originalHeight, mh, wh) == wh

\* Second clamp of calculateDimensions (lines 213-216), applied to the first's
\* result.
HeightClamp(originalWidth, originalHeight, mh, wh) ==
    LET aspectRatio == RatDiv(Rat(originalWidth, 1), Rat(originalHeight, 1))
        limit == Rat(EffectiveMax(mh, originalHeight), 1)
    IN  IF RatGreater(wh[2], limit)
        THEN <<RatMul(limit, aspectRatio), limit>>
        ELSE wh

calculateDimensions(originalWidth, originalHeight, mw, mh) ==
    LET wh == HeightClamp(originalWidth, originalHeight, mh,
                          WidthClamp(originalWidth, originalHeight, mw))
    IN  [width |-> MathRound(wh[1]), height |-> MathRound(wh[2])]

\* String.prototype.lastIndexOf for a one-character needle: 0-based, -1 if none.
lastIndexOf(s, ch) ==
    LET hits == {k \in 1..Len(s) : s[k] = ch}
    IN  IF hits = {} THEN -1
        ELSE (CHOOSE k \in hits : \A j \in hits : j <= k) - 1

\* String.prototype.substring: arguments clamped to 0..length, swapped if reversed.
substring(s, start, end) ==
    LET clamp(v) == IF v < 0 THEN 0 ELSE IF v > Len(s) THEN Len(s) ELSE v
        a == clamp(start)
        b == clamp(end)
        lo == IF a <= b THEN a ELSE b
        hi == IF a <= b THEN b ELSE a
    IN  SubSeq(s, lo + 1, hi)

getNewFileName(originalName, fmt) ==
    LET nameWithoutExt == substring(originalName, 0, lastIndexOf(originalName, DOT))
    IN  nameWithoutExt \o <<DOT>> \o fmt


\* ------------------------------------------------------- the object's state
\* The control values a behaviour runs under: <<format, maxWidth, maxHeight>>.
Configs == {<<<<"p", "n", "g">>, Absent, Absent>>, <<<<"j">>, 1, Absent>>}

IdleRun == [pc |-> "idle", i |-> 0, file |-> 0, width |-> 0, height |-> 0,
            solo |-> FALSE]

NoCall == [fn |-> "none", w |-> 0, h |-> 0, name |-> <<>>, fmt |-> <<>>,
           returned |-> FALSE, step1 |-> <<>>, dims |-> <<>>, out |-> <<>>]

\* A processImage call of run r is between its start and its promise's resolution.
InFlight(r) == runs[r].pc \in {"decode", "encode", "decodeError", "encodeError"}

\* Run r is suspended on a pending load or toBlob completion.
Pending(r) == runs[r].pc \in {"decode", "encode"}

\* Every run loses its claim to be the only handler that touched the two lists
\* since it started.
Disturbed == [r \in RunIds |-> [runs[r] EXCEPT !.solo = FALSE]]

\* Push at the front instead of the back.
PushFront(list, rec) == <<rec>> \o list

\* Array.prototype.push (line 138).
Push(list, rec) == Append(list, rec)

\* The element the loop of processImages takes at index i (0-based, line 136).
FileAt(list, i) == list[i + 1]

\* The record processImage resolves with (lines 181-189); processedSize,
\* compressionRatio and format depend on the encoder's output and are left out.
ResultRecord(file, width, height) ==
    [original      |-> file,
     processedName |-> getNewFileName(FileTable[file].name, format),
     originalSize  |-> FileTable[file].size,
     dimensions    |-> <<width, height>>]

\* canvas.toBlob hands the callback null when the canvas has no pixels.
BlobIsNull(width, height) == width = 0 \/ height = 0

Init ==
    /\ uploadedFiles = <<>>
    /\ processedImages = <<>>
    /\ loading = FALSE
    /\ cards = 0
    /\ runs = [r \in RunIds |-> IdleRun]
    /\ nRuns = 0
    /\ live = 0
    /\ \E c \in Configs : format = c[1] /\ maxWidth = c[2] /\ maxHeight = c[3]
    /\ call = NoCall

\* URL.createObjectURL / URL.revokeObjectURL on the count of live object URLs.
createObjectURL(n) == n + 1

revokeObjectURL(n) == n - 1

\* The user selects or drops files not uploaded before.
FreshDrops == {files \in Drops : Range(files) \cap Range(uploadedFiles) = {}}

\* addFiles (lines 68-79), reached from handleFileSelect and handleDrop.
addFiles(files) ==
    LET imageFiles == SelectSeq(files, LAMBDA f : FileTable[f].type = "image")
    IN  /\ IF Len(imageFiles) = 0
           THEN UNCHANGED <<uploadedFiles, runs>>
           ELSE /\ Len(uploadedFiles) + Len(imageFiles) <= MaxFiles
                /\ uploadedFiles' = uploadedFiles \o imageFiles
                /\ runs' = Disturbed
        /\ UNCHANGED <<processedImages, loading, cards, nRuns, live, format,
                       maxWidth, maxHeight, call>>

\* processImages up to its first await (lines 125-137 and the executor of
\* processImage, lines 152-156 and 193).  The promise of processImage is only
\* ever resolved (line 181), never rejected, and its executor does not throw on
\* a File, so the catch block of lines 143-145 is not reached.
processImages ==
    IF Len(uploadedFiles) = 0
    THEN UNCHANGED vars
    ELSE /\ nRuns < MaxRuns
         /\ LET r == nRuns + 1
            IN  runs' = [Disturbed EXCEPT ![r] =
                            [pc |-> "decode", i |-> 0, file |-> FileAt(uploadedFiles, 0),
                             width |-> 0, height |-> 0,
                             solo |-> \A q \in RunIds : ~Pending(q)]]
         /\ nRuns' = nRuns + 1
         /\ loading' = TRUE
         /\ processedImages' = <<>>
         /\ live' = createObjectURL(live)
         /\ UNCHANGED <<uploadedFiles, cards, format, maxWidth, maxHeight, call>>

\* img.onload (lines 157-190) up to the toBlob request.
imgOnload(r) ==
    /\ runs[r].pc = "decode"
    /\ FileTable[runs[r].file].decodable
    /\ LET img == FileTable[runs[r].file]
           d == calculateDimensions(img.width, img.height, maxWidth, maxHeight)
       IN  runs' = [runs EXCEPT ![r].pc = "encode",
                                ![r].width = d.width, ![r].height = d.height]
    /\ UNCHANGED <<uploadedFiles, processedImages, loading, cards, nRuns, live,
                   format, maxWidth, maxHeight, call>>

\* The image's error event: processImage sets no img.onerror, so the promise is
\* never settled and the run stays suspended at line 137.
imgError(r) ==
    /\ runs[r].pc = "decode"
    /\ ~FileTable[runs[r].file].decodable
    /\ runs' = [runs EXCEPT ![r] = [IdleRun EXCEPT !.pc = "decodeError",
                                                    !.solo = runs[r].solo]]
    /\ UNCHANGED <<uploadedFiles, processedImages, loading, cards, nRuns, live,
                   format, maxWidth, maxHeight, call>>

\* The cards displayProcessedImages builds (lines 226-234): createImageCard
\* creates one object URL per card (line 244) and revokes none.
displayProcessedImages(list, n) == n + Len(list)

\* The toBlob callback (lines 176-190) and, when it resolves the promise, the
\* continuation of processImages (lines 138-148, displayProcessedImages and
\* createImageCard included) up to the next await or the end.
toBlobCallback(r) ==
    /\ runs[r].pc = "encode"
    /\ IF BlobIsNull(runs[r].width, runs[r].height)
       THEN \* blob.size throws inside the callback: resolve is never called
            /\ runs' = [runs EXCEPT ![r] = [IdleRun EXCEPT !.pc = "encodeError",
                                                            !.solo = runs[r].solo]]
            /\ UNCHANGED <<processedImages, loading, cards, live>>
       ELSE LET rec == ResultRecord(runs[r].file, runs[r].width, runs[r].height)
                pushed == Push(processedImages, rec)
                i == runs[r].i + 1
                others == [q \in RunIds |->
                              IF q = r THEN runs[q] ELSE [runs[q] EXCEPT !.solo = FALSE]]
            IN  /\ processedImages' = pushed
                /\ IF i < Len(uploadedFiles)
                   THEN /\ runs' = [others EXCEPT ![r].pc = "decode", ![r].i = i,
                                                  ![r].file = FileAt(uploadedFiles, i),
                                                  ![r].width = 0, ![r].height = 0]
                        /\ live' = createObjectURL(live)
                        /\ UNCHANGED <<loading, cards>>
                   ELSE /\ runs' = [others EXCEPT ![r] = [IdleRun EXCEPT !.pc = "done",
                                                            !.solo = runs[r].solo]]
                        /\ cards' = Len(pushed)
                        /\ live' = displayProcessedImages(pushed, live)
                        /\ loading' = FALSE
    /\ UNCHANGED <<uploadedFiles, nRuns, format, maxWidth, maxHeight, call>>

\* downloadImage (lines 272-284), reached from a card's download button.
downloadImage(index) ==
    /\ index < cards
    /\ IF index < Len(processedImages)
       THEN live' = revokeObjectURL(createObjectURL(live))
       ELSE \* imageData is undefined: imageData.processed throws
            UNCHANGED live
    /\ UNCHANGED <<uploadedFiles, processedImages, loading, cards, runs, nRuns,
                   format, maxWidth, maxHeight, call>>

\* clearAll (lines 301-310).
clearAll ==
    /\ uploadedFiles' = <<>>
    /\ processedImages' = <<>>
    /\ cards' = 0
    /\ runs' = Disturbed
    /\ UNCHANGED <<loading, nRuns, live, format, maxWidth, maxHeight, call>>

Next ==
    \/ \E files \in FreshDrops : addFiles(files)
    \/ processImages
    \/ \E r \in RunIds : imgOnload(r)
    \/ \E r \in RunIds : imgError(r)
    \/ \E r \in RunIds : toBlobCallback(r)
    \/ \E index \in 0..(cards - 1) : downloadImage(index)
    \/ clearAll

Spec == Init /\ [][Next]_vars

\* The browser delivers every pending load, error and toBlob completion.
FairSpec ==
    /\ Spec
    /\ \A r \in RunIds : /\ WF_vars(imgOnload(r))
                         /\ WF_vars(imgError(r))
                         /\ WF_vars(toBlobCallback(r))


\* --------------------------------------- the pure functions on their own
\* The object as constructed, with no file uploaded and no run started.
Constructed ==
    /\ uploadedFiles = <<>>
    /\ processedImages = <<>>
    /\ loading = FALSE
    /\ cards = 0
    /\ runs = [r \in RunIds |-> IdleRun]
    /\ nRuns = 0
    /\ live = 0

Dims == 1..MaxDim

MaxValues == {Absent} \cup Dims

\* <<originalWidth, originalHeight, maxWidth.value, maxHeight.value>>
DimInputs ==
    (Dims \X Dims \X MaxValues \X MaxValues) \cup {<<4000, 1000, 2000, 100>>}

Chars == {"a", "b", DOT}

Names == UNION {[1..n -> Chars] : n \in 1..MaxLen}

InitCalc ==
    /\ Constructed
    /\ format = <<"j">>
    /\ \E in \in DimInputs :
          /\ maxWidth = in[3]
          /\ maxHeight = in[4]
          /\ call = [NoCall EXCEPT !.fn = "calculateDimensions",
                                   !.w = in[1], !.h = in[2]]

\* One call of calculateDimensions(call.w, call.h) under the control values.
callCalculateDimensions ==
    /\ call.fn = "calculateDimensions"
    /\ ~call.returned
    /\ call' = [call EXCEPT !.returned = TRUE,
                            !.step1 = WidthClamp(call.w, call.h, maxWidth),
                            !.dims = calculateDimensions(call.w, call.h,
                                                         maxWidth, maxHeight)]
    /\ UNCHANGED <<uploadedFiles, processedImages, loading, cards, runs, nRuns,
                   live, format, maxWidth, maxHeight>>

NextCalc == callCalculateDimensions

SpecCalc == InitCalc /\ [][NextCalc]_vars

InitName ==
    /\ Constructed
    /\ maxWidth = Absent
    /\ maxHeight = Absent
    /\ \E name \in Names, f \in Formats :
          /\ format = f
          /\ call = [NoCall EXCEPT !.fn = "getNewFileName", !.name = name, !.fmt = f]

\* One call of getNewFileName(call.name, call.fmt).
callGetNewFileName ==
    /\ call.fn = "getNewFileName"
    /\ ~call.returned
    /\ call' = [call EXCEPT !.returned = TRUE,
                            !.out = getNewFileName(call.name, call.fmt)]
    /\ UNCHANGED <<uploadedFiles, processedImages, loading, cards, runs, nRuns,
                   live, format, maxWidth, maxHeight>>

NextName == callGetNewFileName

SpecName == InitName /\ [][NextName]_vars


\* ------------------------------------------------------------ properties
Quiescent == \A r \in RunIds : runs[r].pc \in {"idle", "done"}

\* Result k (1-based) was produced from upload k.
FromUpload(k) ==
    /\ processedImages[k].original = uploadedFiles[k]
    /\ processedImages[k].originalSize = FileTable[uploadedFiles[k]].size

C2_NoPartialResults ==
    \A r \in RunIds :
        runs[r].pc = "decodeError" /\ runs[r].solo => processedImages = <<>>

\* C3 (as claimed): every started batch run eventually ends, also when a decode
\* or an encode step fails.
C3_RunEnds ==
    \A r \in RunIds : (runs[r].pc = "decode") ~> (runs[r].pc = "done")

\* C4 (as claimed): at most one processImage call is pending at any time.
C4_OneInFlight == Cardinality({r \in RunIds : Pending(r)}) <= 1

\* C5: calculateDimensions never returns more than the original dimension nor
\* more than a given bound, on either axis.
C5_NeverExceeds ==
    call.fn = "calculateDimensions" /\ call.returned =>
        /\ call.dims.width <= call.w
        /\ call.dims.height <= call.h
        /\ maxWidth # Absent => call.dims.width <= maxWidth
        /\ maxHeight # Absent => call.dims.height <= maxHeight

\* C5 witness: a call in which both clamps shrank the image.
C5_Witness ==
    /\ call.fn = "calculateDimensions" /\ call.returned
    /\ maxWidth # Absent /\ maxHeight # Absent
    /\ call.w > maxWidth
    /\ RatGreater(call.step1[2], Rat(maxHeight, 1))
    /\ call.dims.width < maxWidth

\* The value of a rational is the integer k.
RatIs(x, k) == x.n = k * x.d

IsClampOrderCase ==
    /\ call.fn = "calculateDimensions" /\ call.returned
    /\ call.w = 4000 /\ call.h = 1000 /\ maxWidth = 2000 /\ maxHeight = 100

\* C6 (as claimed): for 4000x1000 with maxWidth 2000 and maxHeight 100 the width
\* clamp gives 2000x500 and the final result is 200x50.
C6_Original ==
    IsClampOrderCase =>
        /\ RatIs(call.step1[1], 2000) /\ RatIs(call.step1[2], 500)
        /\ call.dims = [width |-> 200, height |-> 50]

\* C6 (amended): for 4000x1000 with maxWidth 2000 and maxHeight 100 the width
\* clamp gives 2000x500 and the height clamp then gives the final result 400x100.
C6_Amended ==
    IsClampOrderCase =>
        /\ RatIs(call.step1[1], 2000) /\ RatIs(call.step1[2], 500)
        /\ call.dims = [width |-> 400, height |-> 100]

\* C6 witness: the 4000x1000 call has returned, its height clamp applied.
C6_Witness ==
    /\ IsClampOrderCase
    /\ call.dims.height = maxHeight

\* C7 (as claimed): neither output dimension of calculateDimensions is zero.
C7_PositiveDims ==
    call.fn = "calculateDimensions" /\ call.returned =>
        call.dims.width > 0 /\ call.dims.height > 0

\* C8 (as claimed): getNewFileName replaces the part of the name after its last
\* '.' by the format; a name without '.' is kept whole and '.' and the format
\* are appended.
C8_ExtensionReplaced ==
    call.fn = "getNewFileName" /\ call.returned =>
        IF DOT \in Range(call.name)
        THEN \E k \in 1..Len(call.name) :
                /\ call.name[k] = DOT
                /\ \A j \in (k + 1)..Len(call.name) : call.name[j] # DOT
                /\ call.out = SubSeq(call.name, 1, k - 1) \o <<DOT>> \o call.fmt
        ELSE call.out = call.name \o <<DOT>> \o call.fmt

\* C9 (as claimed): when every batch run and download has completed, no object
\* URL is left unrevoked.
C9_NoLeak == Quiescent => live = 0

\* C10 (as claimed): in every state the result list is a positional image of a
\* prefix of the upload list.
C10_ResultsMirrorUploads ==
    /\ Len(processedImages) <= Len(uploadedFiles)
    /\ \A k \in 1..Len(processedImages) : FromUpload(k)

====
